---- MODULE Spec2Model ----
(***************************************************************************)
(* Model of runAll.py: ingestion of Google-Vision annotation records into  *)
(* SQLite (insertImage / getOrCreateRow), Neo4j (insertQuery, MERGE) and   *)
(* MongoDB (upsert by url), and the ranking queries over the three stores. *)
(*                                                                         *)
(* Strings are modelled by naturals whose numeric order is the strings'    *)
(* alphabetical order; the empty string '' is 0.  REAL scores and          *)
(* coordinates are naturals (only equality is used on them).               *)
(***************************************************************************)
EXTENDS Integers, Sequences, FiniteSets, TLC

VARIABLES
    files,      \* the decoded JSON documents glob() finds in jsonDir, in order
    doSQLite,   \* the three backend switches of lines 20-22
    doNeo4j,
    doMongo,
    pc,         \* position of main()
    db,         \* the tables as the sqlite connection sees them
    committed,  \* the tables as stored in the database file
    fi,         \* index in files of the document the current loop is at
    oi,         \* index of the next getOrCreateRow call of insertImage
    ids,        \* insertImage's local id variables
    cnt,        \* populateSqlite's cnt
    graph,      \* the Neo4j store
    loaded,     \* populateNeo4j's loaded
    mongo,      \* the googleTagged collection: url -> document
    results,    \* what the query functions printed, per backend
    crashed,    \* where an uncaught exception ended the process, or "no"
    workers     \* concurrent ingestion workers (SpecConc only)

vars == <<files, doSQLite, doNeo4j, doMongo, pc, db, committed, fi, oi, ids,
          cnt, graph, loaded, mongo, results, crashed, workers>>

(***************************************************************************)
(* Bounds.                                                                 *)
(***************************************************************************)
MaxFiles == 3
NumWorkers == 2

(***************************************************************************)
(* Values.                                                                 *)
(***************************************************************************)
None == 0           \* Python None as fetchone()'s answer; row ids start at 1
NULL == -1          \* SQL NULL / JSON null as a column value
EmptyString == 0    \* ''
full == 1           \* the match type 'full'
partial == 2        \* the match type 'partial'

Min(S) == CHOOSE x \in S : \A y \in S : x <= y
Max(S) == CHOOSE x \in S : \A y \in S : x >= y

(***************************************************************************)
(* The relational schema (createSchema).                                   *)
(***************************************************************************)
Tables == {"image", "label", "image_tagged_label", "page", "landmark",
           "location", "web_entity", "image_in_page", "image_matches_image",
           "image_contains_landmark", "image_tagged_web_entity",
           "landmark_located_at_location"}

Columns(table) ==
    CASE table = "image" -> {"url", "is_document"}
      [] table = "label" -> {"mid", "description"}
      [] table = "image_tagged_label" -> {"image_id", "label_id", "score"}
      [] table = "page" -> {"url"}
      [] table = "landmark" -> {"mid", "description"}
      [] table = "location" -> {"latitude", "longitude"}
      [] table = "web_entity" -> {"entity_id", "description"}
      [] table = "image_in_page" -> {"image_id", "page_id"}
      [] table = "image_matches_image" -> {"image_id1", "image_id2", "type"}
      [] table = "image_contains_landmark" -> {"image_id", "landmark_id", "score"}
      [] table = "image_tagged_web_entity" -> {"image_id", "web_entity_id", "score"}
      [] table = "landmark_located_at_location" -> {"landmark_id", "location_id"}

\* The value of a column an INSERT does not supply: is_document has
\* DEFAULT 0, every other column is NULL.
ColumnDefault(table, column) ==
    IF table = "image" /\ column = "is_document" THEN 0 ELSE NULL

\* createSchema with clearDb: every table dropped and created again.  A table
\* is the sequence of its rows; a row's id (INTEGER PRIMARY KEY) is its index.
createSchema == [t \in Tables |-> <<>>]

(***************************************************************************)
(* getOrCreateRow.                                                         *)
(***************************************************************************)
\* WHERE "k1" = :k1 AND "k2" = :k2 ...; a comparison with NULL is never true.
WhereMutantIgnoresScore(row, dataDict) ==
    \A k \in DOMAIN dataDict \ {"score"} :
        dataDict[k] # NULL /\ row[k] # NULL /\ row[k] = dataDict[k]

Where(row, dataDict) ==
    \A k \in DOMAIN dataDict :
        dataDict[k] # NULL /\ row[k] # NULL /\ row[k] = dataDict[k]

\* cursor.execute(select, dataDict); cursor.fetchone(): the first matching row
\* of a scan in rowid order (the schema has no index), or None.
SelectMutantLastRow(tables, table, dataDict) ==
    LET hit == {i \in 1..Len(tables[table]) : Where(tables[table][i], dataDict)}
    IN  IF hit = {} THEN None ELSE Max(hit)

Select(tables, table, dataDict) ==
    LET hit == {i \in 1..Len(tables[table]) : Where(tables[table][i], dataDict)}
    IN  IF hit = {} THEN None ELSE Min(hit)

\* cursor.execute(insert, dataDict): one new row with the next id.
InsertMutantTwice(tables, table, dataDict) ==
    LET row == [c \in Columns(table) |->
                   IF c \in DOMAIN dataDict THEN dataDict[c]
                   ELSE ColumnDefault(table, c)]
    IN  [tables EXCEPT ![table] = Append(Append(@, row), row)]

Insert(tables, table, dataDict) ==
    [tables EXCEPT ![table] =
        Append(@, [c \in Columns(table) |->
                      IF c \in DOMAIN dataDict THEN dataDict[c]
                      ELSE ColumnDefault(table, c)])]

\* The whole function, run without interruption: the tables it leaves, the id
\* it returns, and whether it raised 'Something went wrong'.
getOrCreateRow(tables, table, dataDict) ==
    LET res == Select(tables, table, dataDict)
    IN  IF res # None
        THEN [tables |-> tables, id |-> res, raised |-> FALSE]
        ELSE LET inserted == Insert(tables, table, dataDict)
                 res2 == Select(inserted, table, dataDict)
             IN  [tables |-> inserted, id |-> res2, raised |-> res2 = None]

(***************************************************************************)
(* Decoded JSON documents.  An optional key is a record [present, items].  *)
(***************************************************************************)
Arr(s) == [present |-> TRUE, items |-> s]
Absent == [present |-> FALSE, items |-> <<>>]

LabelAnn(mid, description, score) ==
    [mid |-> mid, description |-> description, score |-> score]

\* hasDescription: whether the 'description' key is in the object.
WebEnt(entityId, hasDescription, description, score) ==
    [entityId |-> entityId, hasDescription |-> hasDescription,
     description |-> description, score |-> score]

LatLng(latitude, longitude) == [latitude |-> latitude, longitude |-> longitude]

LandmarkAnn(mid, hasDescription, description, score, locations) ==
    [mid |-> mid, hasDescription |-> hasDescription,
     description |-> description, score |-> score, locations |-> locations]

WebDetection(fmis, pmis, pages, entities) ==
    [present |-> TRUE, fullMatchingImages |-> fmis,
     partialMatchingImages |-> pmis, pagesWithMatchingImages |-> pages,
     webEntities |-> entities]

NoWebDetection ==
    [present |-> FALSE, fullMatchingImages |-> Absent,
     partialMatchingImages |-> Absent, pagesWithMatchingImages |-> Absent,
     webEntities |-> Absent]

Doc(hasUrl, url, labels, web, landmarks) ==
    [hasUrl |-> hasUrl, url |-> url, labelAnnotations |-> labels,
     webDetection |-> web, landmarkAnnotations |-> landmarks]

(***************************************************************************)
(* insertImage as the sequence of getOrCreateRow calls it makes.  A call   *)
(* is [table, vals, refs, into]: vals are the literal entries of its       *)
(* dataDict, refs the entries read from a local id variable, into the      *)
(* local variable the returned id is assigned to.  A KeyError raised by a  *)
(* subscript of a missing key ends the sequence.                           *)
(***************************************************************************)
NoRefs == [c \in {} |-> ""]

Call(table, vals, refs, into) ==
    [table |-> table, vals |-> vals, refs |-> refs, into |-> into]

KeyError == Call("KeyError", NoRefs, NoRefs, "none")

\* The locals before the first call.
NoIds ==
    [imageId |-> None, labelId |-> None, imageId2 |-> None, pageId |-> None,
     webEntityId |-> None, landmarkId |-> None, locationId |-> None]

\* The dataDict of a call, given the locals.
DataDict(call, locals) ==
    [k \in DOMAIN call.vals \cup DOMAIN call.refs |->
        IF k \in DOMAIN call.vals THEN call.vals[k] ELSE locals[call.refs[k]]]

\* Lines 223-224.
ImageCalls(jsonData) ==
    IF ~jsonData.hasUrl THEN <<KeyError>>
    ELSE <<Call("image", [url |-> jsonData.url, is_document |-> 1], NoRefs,
                "imageId")>>

\* Lines 228-232.
RECURSIVE LabelLoopMutantEdgeFirst(_)
LabelLoopMutantEdgeFirst(anns) ==
    IF anns = <<>> THEN <<>>
    ELSE LET ann == Head(anns)
         IN  <<Call("image_tagged_label", [score |-> ann.score],
                    [image_id |-> "imageId", label_id |-> "labelId"], "none"),
               Call("label",
                    [mid |-> ann.mid, description |-> ann.description],
                    NoRefs, "labelId")>>
             \o LabelLoopMutantEdgeFirst(Tail(anns))

RECURSIVE LabelLoop(_)
LabelLoop(anns) ==
    IF anns = <<>> THEN <<>>
    ELSE LET ann == Head(anns)
         IN  <<Call("label",
                    [mid |-> ann.mid, description |-> ann.description],
                    NoRefs, "labelId"),
               Call("image_tagged_label", [score |-> ann.score],
                    [image_id |-> "imageId", label_id |-> "labelId"], "none")>>
             \o LabelLoop(Tail(anns))

LabelCalls(jsonData) ==
    IF ~jsonData.labelAnnotations.present THEN <<KeyError>>
    ELSE LabelLoop(jsonData.labelAnnotations.items)

\* Lines 235-248: the two match loops differ in the 'type' only.
RECURSIVE MatchLoop(_, _)
MatchLoop(urls, type) ==
    IF urls = <<>> THEN <<>>
    ELSE <<Call("image", [url |-> Head(urls)], NoRefs, "imageId2"),
           Call("image_matches_image", [type |-> type],
                [image_id1 |-> "imageId", image_id2 |-> "imageId2"], "none")>>
         \o MatchLoop(Tail(urls), type)

\* Lines 251-256.
RECURSIVE PageLoop(_)
PageLoop(urls) ==
    IF urls = <<>> THEN <<>>
    ELSE <<Call("page", [url |-> Head(urls)], NoRefs, "pageId"),
           Call("image_in_page", NoRefs,
                [image_id |-> "imageId", page_id |-> "pageId"], "none")>>
         \o PageLoop(Tail(urls))

\* Lines 260-270: a web entity without description gets ''.
RECURSIVE WebEntityLoop(_)
WebEntityLoop(ents) ==
    IF ents = <<>> THEN <<>>
    ELSE LET ent == Head(ents)
             desc == IF ent.hasDescription THEN ent.description
                     ELSE EmptyString
         IN  <<Call("web_entity",
                    [entity_id |-> ent.entityId, description |-> desc],
                    NoRefs, "webEntityId"),
               Call("image_tagged_web_entity", [score |-> ent.score],
                    [image_id |-> "imageId", web_entity_id |-> "webEntityId"],
                    "none")>>
             \o WebEntityLoop(Tail(ents))

\* Lines 285-290.
RECURSIVE LocationLoop(_)
LocationLoop(locs) ==
    IF locs = <<>> THEN <<>>
    ELSE <<Call("location",
                [latitude |-> Head(locs).latitude,
                 longitude |-> Head(locs).longitude], NoRefs, "locationId"),
           Call("landmark_located_at_location", NoRefs,
                [landmark_id |-> "landmarkId", location_id |-> "locationId"],
                "none")>>
         \o LocationLoop(Tail(locs))

\* Lines 274-290: a landmark without description gets ''.
RECURSIVE LandmarkLoop(_)
LandmarkLoop(lmas) ==
    IF lmas = <<>> THEN <<>>
    ELSE LET lma == Head(lmas)
             desc == IF lma.hasDescription THEN lma.description
                     ELSE EmptyString
         IN  <<Call("landmark", [mid |-> lma.mid, description |-> desc],
                    NoRefs, "landmarkId"),
               Call("image_contains_landmark", [score |-> lma.score],
                    [image_id |-> "imageId", landmark_id |-> "landmarkId"],
                    "none")>>
             \o LocationLoop(lma.locations)
             \o LandmarkLoop(Tail(lmas))

\* Lines 235-270: every subscript ['webDetection'] needs the key; the three
\* 'in' tests guard the match and page arrays, nothing guards webEntities.
WebDetectionCalls(jsonData) ==
    LET web == jsonData.webDetection
    IN  IF ~web.present THEN <<KeyError>>
        ELSE (IF web.fullMatchingImages.present
              THEN MatchLoop(web.fullMatchingImages.items, full) ELSE <<>>)
             \o (IF web.partialMatchingImages.present
                 THEN MatchLoop(web.partialMatchingImages.items, partial)
                 ELSE <<>>)
             \o (IF web.pagesWithMatchingImages.present
                 THEN PageLoop(web.pagesWithMatchingImages.items) ELSE <<>>)
             \o (IF web.webEntities.present
                 THEN WebEntityLoop(web.webEntities.items) ELSE <<KeyError>>)

LandmarkCalls(jsonData) ==
    IF jsonData.landmarkAnnotations.present
    THEN LandmarkLoop(jsonData.landmarkAnnotations.items) ELSE <<>>

\* A sequence of calls up to and including its first KeyError.
RECURSIVE UpToKeyError(_)
UpToKeyError(calls) ==
    IF calls = <<>> THEN <<>>
    ELSE IF Head(calls).table = "KeyError" THEN <<Head(calls)>>
    ELSE <<Head(calls)>> \o UpToKeyError(Tail(calls))

insertImage(jsonData) ==
    UpToKeyError(ImageCalls(jsonData) \o LabelCalls(jsonData)
                 \o WebDetectionCalls(jsonData) \o LandmarkCalls(jsonData))

\* Whether insertImage runs to its end on the document.
Ingestible(jsonData) ==
    \A i \in 1..Len(insertImage(jsonData)) :
        insertImage(jsonData)[i].table # "KeyError"

\* One call of insertImage executed on the tables with the given locals.
DoCall(tables, call, locals) ==
    LET r == getOrCreateRow(tables, call.table, DataDict(call, locals))
    IN  [tables |-> r.tables, raised |-> r.raised,
         ids |-> IF call.into = "none" THEN locals
                 ELSE [locals EXCEPT ![call.into] = r.id]]

\* insertImage run to its end from the given tables (for a document on which
\* no call raises).
RECURSIVE RunCalls(_, _, _)
RunCalls(tables, calls, locals) ==
    IF calls = <<>> THEN tables
    ELSE LET r == DoCall(tables, Head(calls), locals)
         IN  RunCalls(r.tables, Tail(calls), r.ids)

\* populateSqlite over a list of documents, each ingested to its end.
RECURSIVE IngestAll(_, _)
IngestAll(tables, docs) ==
    IF docs = <<>> THEN tables
    ELSE IngestAll(RunCalls(tables, insertImage(Head(docs)), NoIds), Tail(docs))

(***************************************************************************)
(* Query results: ORDER BY count DESC, label; LIMIT.                       *)
(***************************************************************************)
TopN == 10

\* Rows are [label, count, group], one per group.  Rows equal in count and
\* label print the same pair, whichever comes first.
RowBefore(r, o) ==
    \/ r.count > o.count
    \/ r.count = o.count /\ r.label < o.label
    \/ r.count = o.count /\ r.label = o.label /\ r.group <= o.group

RECURSIVE OrderBy(_)
OrderBy(rows) ==
    IF rows = {} THEN <<>>
    ELSE LET first == CHOOSE r \in rows : \A o \in rows : RowBefore(r, o)
         IN  <<(<<first.label, first.count>>)>> \o OrderBy(rows \ {first})

LimitMutantLastRows(rows, n) ==
    SubSeq(rows, IF Len(rows) < n THEN 1 ELSE Len(rows) - n + 1, Len(rows))

Limit(rows, n) == SubSeq(rows, 1, IF Len(rows) < n THEN Len(rows) ELSE n)

RECURSIVE SumOf(_)
SumOf(f) ==
    IF DOMAIN f = {} THEN 0
    ELSE LET x == CHOOSE x \in DOMAIN f : TRUE
         IN  f[x] + SumOf([y \in DOMAIN f \ {x} |-> f[y]])

RowIds(tables, table) == 1..Len(tables[table])

(***************************************************************************)
(* querySqlite.                                                            *)
(***************************************************************************)
\* image JOIN image_contains_landmark GROUP BY img.url.
query_1(tables) ==
    LET urls == {tables.image[i].url : i \in RowIds(tables, "image")}
        joined(u) ==
            {<<i, e>> \in RowIds(tables, "image")
                          \X RowIds(tables, "image_contains_landmark") :
                /\ tables.image[i].url = u
                /\ tables.image_contains_landmark[e].image_id = i}
    IN  Limit(OrderBy({[label |-> u, count |-> Cardinality(joined(u)),
                        group |-> u] : u \in {v \in urls : joined(v) # {}}}),
              TopN)

\* landmark_located_at_location JOIN landmark GROUP BY lma.description
\* HAVING COUNT(*) > 1.
query_2(tables) ==
    LET descs == {tables.landmark[i].description :
                      i \in RowIds(tables, "landmark")}
        joined(d) ==
            {<<e, i>> \in RowIds(tables, "landmark_located_at_location")
                          \X RowIds(tables, "landmark") :
                /\ tables.landmark_located_at_location[e].landmark_id = i
                /\ tables.landmark[i].description = d}
    IN  OrderBy({[label |-> d, count |-> Cardinality(joined(d)), group |-> d] :
                    d \in {x \in descs : Cardinality(joined(x)) > 1}})

\* image JOIN image_matches_image ON id = image_id1 OR id = image_id2
\* GROUP BY img.id.
query_3(tables) ==
    LET joined(i) ==
            {e \in RowIds(tables, "image_matches_image") :
                \/ tables.image_matches_image[e].image_id1 = i
                \/ tables.image_matches_image[e].image_id2 = i}
    IN  Limit(OrderBy({[label |-> tables.image[i].url,
                        count |-> Cardinality(joined(i)), group |-> i] :
                          i \in {j \in RowIds(tables, "image") :
                                    joined(j) # {}}}),
              TopN)

\* The rows of the counts CTE for one image id: one (image_id, cnt) row per
\* UNION ALL branch in which the id occurs.
CountsOf(tables, i) ==
    LET n(table, column) ==
            Cardinality({e \in RowIds(tables, table) :
                            tables[table][e][column] = i})
        incoming ==
            Cardinality({e \in RowIds(tables, "image_matches_image") :
                /\ tables.image_matches_image[e].image_id2 = i
                /\ tables.image_matches_image[e].image_id1
                       # tables.image_matches_image[e].image_id2})
    IN  n("image_tagged_label", "image_id") + n("image_in_page", "image_id")
        + n("image_matches_image", "image_id1") + incoming
        + n("image_contains_landmark", "image_id")
        + n("image_tagged_web_entity", "image_id")

\* image JOIN counts WHERE is_document == 1 GROUP BY image.url.
query_4(tables) ==
    LET docs == {i \in RowIds(tables, "image") :
                    tables.image[i].is_document = 1 /\ CountsOf(tables, i) > 0}
        total(u) == SumOf([i \in {j \in docs : tables.image[j].url = u} |->
                              CountsOf(tables, i)])
    IN  Limit(OrderBy({[label |-> u, count |-> total(u), group |-> u] :
                          u \in {tables.image[i].url : i \in docs}}),
              TopN)

querySqlite(tables) ==
    <<query_1(tables), query_2(tables), query_3(tables), query_4(tables)>>

(***************************************************************************)
(* The Neo4j store.  Image, Label and WebEntity nodes are functions from   *)
(* the MERGE key to the property set ON CREATE / ON MATCH; Page, Landmark  *)
(* and Location nodes are the sets of their keys.  Relationships are sets  *)
(* per type: a MERGE of a relationship creates it only if none with the    *)
(* same end nodes and properties exists.                                   *)
(***************************************************************************)
NoNodes == [k \in {} |-> 0]

EmptyGraph ==
    [Image |-> NoNodes, Label |-> NoNodes, WebEntity |-> NoNodes,
     Page |-> {}, Landmark |-> {}, Location |-> {},
     TAGGED |-> {}, MATCH |-> {}, In |-> {}, CONTAINS |-> {},
     LOCATED_AT |-> {}]

\* MERGE (n {key}) ON CREATE SET n.p = onCreate.
MergeOnCreate(nodes, key, onCreate) ==
    IF key \in DOMAIN nodes THEN nodes
    ELSE [k \in DOMAIN nodes \cup {key} |->
             IF k = key THEN onCreate ELSE nodes[k]]

\* MERGE (n {key}) ON CREATE SET n.p = v ON MATCH SET n.p = v.
MergeAndSet(nodes, key, v) ==
    [k \in DOMAIN nodes \cup {key} |-> IF k = key THEN v ELSE nodes[k]]

LabelNode(mid) == [kind |-> "Label", key |-> mid]
WebEntityNode(entityId) == [kind |-> "WebEntity", key |-> entityId]

\* Lines 364-367.
RECURSIVE ForeachLabel(_, _, _)
ForeachLabel(g, img, anns) ==
    IF anns = <<>> THEN g
    ELSE LET ann == Head(anns)
         IN  ForeachLabel(
                 [g EXCEPT
                     !.Label = MergeOnCreate(@, ann.mid, ann.description),
                     !.TAGGED = @ \cup {[from |-> img, to |-> LabelNode(ann.mid),
                                         score |-> ann.score]}],
                 img, Tail(anns))

\* Lines 368-375.
RECURSIVE ForeachMatch(_, _, _, _)
ForeachMatch(g, img, urls, type) ==
    IF urls = <<>> THEN g
    ELSE ForeachMatch(
             [g EXCEPT
                 !.Image = MergeOnCreate(@, Head(urls), "false"),
                 !.MATCH = @ \cup {[from |-> img, to |-> Head(urls),
                                    type |-> type]}],
             img, Tail(urls), type)

\* Lines 376-379.
RECURSIVE ForeachWebEntity(_, _, _)
ForeachWebEntity(g, img, ents) ==
    IF ents = <<>> THEN g
    ELSE LET web == Head(ents)
             desc == IF web.hasDescription THEN web.description
                     ELSE EmptyString
         IN  ForeachWebEntity(
                 [g EXCEPT
                     !.WebEntity = MergeOnCreate(@, web.entityId, desc),
                     !.TAGGED = @ \cup {[from |-> img,
                                         to |-> WebEntityNode(web.entityId),
                                         score |-> web.score]}],
                 img, Tail(ents))

\* Lines 380-382.
RECURSIVE ForeachPage(_, _, _)
ForeachPage(g, img, urls) ==
    IF urls = <<>> THEN g
    ELSE ForeachPage(
             [g EXCEPT !.Page = @ \cup {Head(urls)},
                       !.In = @ \cup {[from |-> img, to |-> Head(urls)]}],
             img, Tail(urls))

\* Lines 387-390.
RECURSIVE ForeachLocation(_, _, _)
ForeachLocation(g, lan, locs) ==
    IF locs = <<>> THEN g
    ELSE LET lct == <<Head(locs).latitude, Head(locs).longitude>>
         IN  ForeachLocation(
                 [g EXCEPT !.Location = @ \cup {lct},
                           !.LOCATED_AT = @ \cup {[from |-> lan, to |-> lct]}],
                 lan, Tail(locs))

\* Lines 383-390.
RECURSIVE ForeachLandmark(_, _, _)
ForeachLandmark(g, img, lmas) ==
    IF lmas = <<>> THEN g
    ELSE LET lma == Head(lmas)
             lan == <<lma.mid, IF lma.hasDescription THEN lma.description
                               ELSE EmptyString>>
             g1 == [g EXCEPT !.Landmark = @ \cup {lan},
                             !.CONTAINS = @ \cup {[from |-> img, to |-> lan,
                                                   score |-> lma.score]}]
         IN  ForeachLandmark(ForeachLocation(g1, lan, lma.locations),
                             img, Tail(lmas))

\* A MERGE on a null property value fails the query with a ClientError; q.url
\* of a document without url is null.
insertQueryFails(q) == ~q.hasUrl

\* FOREACH over a null list (an absent array) does nothing.
ItemsOf(arr) == IF arr.present THEN arr.items ELSE <<>>

\* The whole insertQuery, one auto-commit transaction.
insertQuery(g, q) ==
    LET web == q.webDetection
        g0 == [g EXCEPT !.Image = MergeAndSet(@, q.url, "true")]
        g1 == ForeachLabel(g0, q.url, ItemsOf(q.labelAnnotations))
        g2 == ForeachMatch(g1, q.url, ItemsOf(web.fullMatchingImages), full)
        g3 == ForeachMatch(g2, q.url, ItemsOf(web.partialMatchingImages),
                           partial)
        g4 == ForeachWebEntity(g3, q.url, ItemsOf(web.webEntities))
        g5 == ForeachPage(g4, q.url, ItemsOf(web.pagesWithMatchingImages))
    IN  ForeachLandmark(g5, q.url, ItemsOf(q.landmarkAnnotations))

(***************************************************************************)
(* queryNeo4j.  An undirected pattern matches a relationship once from     *)
(* each of its two end nodes, and a loop once.                             *)
(***************************************************************************)
\* MATCH (i:Image)-[:CONTAINS]->(lm:Landmark) RETURN i.url, COUNT(lm).
query_5(g) ==
    Limit(OrderBy({[label |-> u,
                    count |-> Cardinality({r \in g.CONTAINS : r.from = u}),
                    group |-> u] : u \in {r.from : r \in g.CONTAINS}}),
          TopN)

\* Grouped by la.description.
query_6(g) ==
    LET n(d) == Cardinality({r \in g.LOCATED_AT : r.from[2] = d})
    IN  OrderBy({[label |-> d, count |-> n(d), group |-> d] :
                    d \in {x \in {r.from[2] : r \in g.LOCATED_AT} : n(x) > 1}})

\* MATCH (m:Image)-[:MATCH]-(n:Image) RETURN m.url, COUNT(n).
query_7(g) ==
    LET n(u) == Cardinality({r \in g.MATCH : r.from = u \/ r.to = u})
    IN  Limit(OrderBy({[label |-> u, count |-> n(u), group |-> u] :
                          u \in {r.from : r \in g.MATCH}
                                \cup {r.to : r \in g.MATCH}}),
              TopN)

\* MATCH (i:Image {isDocument:'true'})-[r]-() RETURN i.url, COUNT(r).
query_8(g) ==
    LET n(u) == Cardinality({r \in g.TAGGED : r.from = u})
                + Cardinality({r \in g.MATCH : r.from = u \/ r.to = u})
                + Cardinality({r \in g.In : r.from = u})
                + Cardinality({r \in g.CONTAINS : r.from = u})
    IN  Limit(OrderBy({[label |-> u, count |-> n(u), group |-> u] :
                          u \in {v \in DOMAIN g.Image :
                                    g.Image[v] = "true" /\ n(v) > 0}}),
              TopN)

\* Grouped by the Landmark node la.
query_9(g) ==
    LET n(la) == Cardinality({r \in g.LOCATED_AT : r.from = la})
    IN  OrderBy({[label |-> la[2], count |-> n(la), group |-> la[1]] :
                    la \in {x \in g.Landmark : n(x) > 1}})

queryNeo4j(g) ==
    <<query_5(g), query_6(g), query_7(g), query_8(g), query_9(g)>>

(***************************************************************************)
(* MongoDB: the collection is a function from url to the stored document.  *)
(***************************************************************************)
NoDocuments == [u \in {} |-> 0]

\* update_one({'url': url}, {'$set': jsonData}, upsert=True): url and
\* response, the two fields of a document, are both replaced.
update_one(collection, jsonData) ==
    [u \in DOMAIN collection \cup {jsonData.url} |->
        IF u = jsonData.url THEN jsonData ELSE collection[u]]

\* {'$size': {'$ifNull': [array, []]}}.
SizeOf(arr) == IF arr.present THEN Len(arr.items) ELSE 0

pipeline_1(collection) ==
    Limit(OrderBy({[label |-> u,
                    count |-> SizeOf(collection[u].landmarkAnnotations),
                    group |-> u] : u \in DOMAIN collection}),
          TopN)

\* The description a $group key reads: a missing field groups as null.
DescriptionField(lma) ==
    IF lma.hasDescription THEN lma.description ELSE NULL

\* $unwind landmarkAnnotations, $unwind locations, $group by (description,
\* latLng), $group by description, $sort, $match cnt > 1.
pipeline_2(collection) ==
    LET pairs ==
            UNION {UNION {{<<DescriptionField(lmas[i]), lmas[i].locations[j]>> :
                              j \in 1..Len(lmas[i].locations)} :
                          i \in 1..Len(lmas)} :
                   lmas \in {ItemsOf(collection[u].landmarkAnnotations) :
                                u \in DOMAIN collection}}
        n(d) == Cardinality({p \in pairs : p[1] = d})
    IN  OrderBy({[label |-> d, count |-> n(d), group |-> d] :
                    d \in {x \in {p[1] : p \in pairs} : n(x) > 1}})

pipeline_3(collection) ==
    Limit(OrderBy({[label |-> u,
                    count |->
                        SizeOf(collection[u].webDetection.partialMatchingImages)
                        + SizeOf(collection[u].webDetection.fullMatchingImages),
                    group |-> u] : u \in DOMAIN collection}),
          TopN)

pipeline_4(collection) ==
    LET doc(u) == collection[u]
        web(u) == collection[u].webDetection
    IN  Limit(OrderBy({[label |-> u,
                        count |-> SizeOf(doc(u).labelAnnotations)
                                  + SizeOf(doc(u).landmarkAnnotations)
                                  + SizeOf(web(u).pagesWithMatchingImages)
                                  + SizeOf(web(u).webEntities)
                                  + SizeOf(web(u).partialMatchingImages)
                                  + SizeOf(web(u).fullMatchingImages),
                        group |-> u] : u \in DOMAIN collection}),
              TopN)

queryMongo(collection) ==
    <<pipeline_1(collection), pipeline_2(collection), pipeline_3(collection),
      pipeline_4(collection)>>

(***************************************************************************)
(* The documents of jsonDir.  URLs a < b < c are 1, 2, 3.                  *)
(***************************************************************************)
\* a: one label, a full match to b, a page, a web entity without
\* description, a landmark with one location.
DocA ==
    Doc(TRUE, 1, Arr(<<LabelAnn(1, 1, 1)>>),
        WebDetection(Arr(<<2>>), Absent, Arr(<<1>>),
                     Arr(<<WebEnt(1, FALSE, 0, 1)>>)),
        Arr(<<LandmarkAnn(1, TRUE, 1, 1, <<LatLng(1, 1)>>)>>))

\* a again, with only the score of its label changed.
DocADrift ==
    [DocA EXCEPT !.labelAnnotations = Arr(<<LabelAnn(1, 1, 2)>>)]

\* b: the label of a under another description, a partial match to itself,
\* a landmark with the description and location of a's under another mid.
DocB ==
    Doc(TRUE, 2, Arr(<<LabelAnn(1, 2, 1)>>),
        WebDetection(Absent, Arr(<<2>>), Absent, Arr(<<>>)),
        Arr(<<LandmarkAnn(2, TRUE, 1, 1, <<LatLng(1, 1)>>)>>))

\* c: full matches to a and b, no landmarkAnnotations key.
DocC ==
    Doc(TRUE, 3, Arr(<<>>),
        WebDetection(Arr(<<1, 2>>), Absent, Absent, Arr(<<>>)), Absent)

\* c without the webEntities key.
DocNoWebEntities ==
    Doc(TRUE, 3, Arr(<<LabelAnn(1, 1, 1)>>),
        WebDetection(Arr(<<1>>), Absent, Absent, Absent), Absent)

\* A document without the url key.
DocNoUrl ==
    Doc(FALSE, NULL, Arr(<<>>),
        WebDetection(Absent, Absent, Absent, Arr(<<>>)), Absent)

Documents == {DocA, DocADrift, DocB, DocC, DocNoWebEntities, DocNoUrl}

RECURSIVE SeqsUpTo(_, _)
SeqsUpTo(S, n) ==
    IF n = 0 THEN {<<>>}
    ELSE LET shorter == SeqsUpTo(S, n - 1)
         IN  shorter \cup {Append(s, x) : s \in shorter, x \in S}

(***************************************************************************)
(* main().                                                                 *)
(***************************************************************************)
NoResults == [sqlite |-> <<>>, neo4j |-> <<>>, mongo |-> <<>>]

\* The tables of the database file after a statement run on the connection:
\* sqlite3.connect(dbFile) opens a transaction before the first INSERT and
\* nothing is stored until connection.commit().
StoredAfterExecuteMutantAutocommit(stored, tables) == tables

StoredAfterExecute(stored, tables) == stored

\* Where main goes after the SQLite part, and after the Neo4j part.
AfterSqlite ==
    IF doNeo4j THEN "populateNeo4j" ELSE IF doMongo THEN "populateMongo"
    ELSE "exit"

AfterNeo4j == IF doMongo THEN "populateMongo" ELSE "exit"

Init ==
    /\ files \in SeqsUpTo(Documents, MaxFiles)
    /\ doSQLite \in BOOLEAN
    /\ doNeo4j \in BOOLEAN
    /\ doMongo \in BOOLEAN
    /\ pc = "main"
    /\ db = createSchema
    /\ committed = createSchema
    /\ fi = 1
    /\ oi = 1
    /\ ids = NoIds
    /\ cnt = 0
    /\ graph = EmptyGraph
    /\ loaded = 0
    /\ mongo = NoDocuments
    /\ results = NoResults
    /\ crashed = "no"
    /\ workers = <<>>

\* Lines 26-30: connect and createSchema (DDL is stored at once).
Connect ==
    /\ pc = "main"
    /\ doSQLite
    /\ db' = createSchema
    /\ committed' = createSchema
    /\ pc' = "populateSqlite"
    /\ fi' = 1
    /\ oi' = 1
    /\ ids' = NoIds
    /\ cnt' = 0
    /\ UNCHANGED <<files, doSQLite, doNeo4j, doMongo, graph, loaded, mongo,
                   results, crashed, workers>>

\* Line 26 with doSQLite False.
SkipSqlite ==
    /\ pc = "main"
    /\ ~doSQLite
    /\ pc' = AfterSqlite
    /\ UNCHANGED <<files, doSQLite, doNeo4j, doMongo, db, committed, fi, oi,
                   ids, cnt, graph, loaded, mongo, results, crashed, workers>>

\* An uncaught exception ends the process: the open transaction is never
\* committed, and the database file keeps the tables stored before.
Uncaught(where) ==
    /\ crashed' = where
    /\ pc' = "exit"

\* One getOrCreateRow call of insertImage on the current document.
InsertImageCall ==
    /\ pc = "populateSqlite"
    /\ fi <= Len(files)
    /\ oi <= Len(insertImage(files[fi]))
    /\ insertImage(files[fi])[oi].table # "KeyError"
    /\ LET r == DoCall(db, insertImage(files[fi])[oi], ids)
       IN  IF r.raised
           THEN /\ Uncaught("populateSqlite")
                /\ UNCHANGED <<db, committed, oi, ids>>
           ELSE /\ db' = r.tables
                /\ committed' = StoredAfterExecute(committed, r.tables)
                /\ ids' = r.ids
                /\ oi' = oi + 1
                /\ UNCHANGED <<pc, crashed>>
    /\ UNCHANGED <<files, doSQLite, doNeo4j, doMongo, fi, cnt, graph, loaded,
                   mongo, results, workers>>

\* A subscript of insertImage raises KeyError: populateSqlite and main have
\* no handler.
InsertImageKeyError ==
    /\ pc = "populateSqlite"
    /\ fi <= Len(files)
    /\ oi <= Len(insertImage(files[fi]))
    /\ insertImage(files[fi])[oi].table = "KeyError"
    /\ Uncaught("populateSqlite")
    /\ UNCHANGED <<files, doSQLite, doNeo4j, doMongo, db, committed, fi, oi, ids,
                   cnt, graph, loaded, mongo, results, workers>>

\* The run is cancelled (KeyboardInterrupt, kill) while populateSqlite is at
\* work: nothing handles it either.
Interrupt ==
    /\ pc = "populateSqlite"
    /\ fi <= Len(files)
    /\ Uncaught("interrupted")
    /\ UNCHANGED <<files, doSQLite, doNeo4j, doMongo, db, committed, fi, oi, ids,
                   cnt, graph, loaded, mongo, results, workers>>

\* insertImage returns; line 217.
InsertImageReturn ==
    /\ pc = "populateSqlite"
    /\ fi <= Len(files)
    /\ oi > Len(insertImage(files[fi]))
    /\ cnt' = cnt + 1
    /\ fi' = fi + 1
    /\ oi' = 1
    /\ ids' = NoIds
    /\ UNCHANGED <<files, doSQLite, doNeo4j, doMongo, pc, db, committed,
                   graph, loaded, mongo, results, crashed, workers>>

\* Line 32.
QuerySqlite ==
    /\ pc = "populateSqlite"
    /\ fi > Len(files)
    /\ results' = [results EXCEPT !.sqlite = querySqlite(db)]
    /\ pc' = "commit"
    /\ UNCHANGED <<files, doSQLite, doNeo4j, doMongo, db, committed, fi, oi,
                   ids, cnt, graph, loaded, mongo, crashed, workers>>

\* Lines 33-34.
Commit ==
    /\ pc = "commit"
    /\ committed' = db
    /\ pc' = AfterSqlite
    /\ fi' = 1
    /\ UNCHANGED <<files, doSQLite, doNeo4j, doMongo, db, oi, ids, cnt, graph,
                   loaded, mongo, results, crashed, workers>>

\* Lines 409-414, one document: the query runs whole or not at all.
RunInsertQuery ==
    /\ pc = "populateNeo4j"
    /\ fi <= Len(files)
    /\ IF insertQueryFails(files[fi])
       THEN UNCHANGED <<graph, loaded>>
       ELSE /\ graph' = insertQuery(graph, files[fi])
            /\ loaded' = loaded + 1
    /\ fi' = fi + 1
    /\ UNCHANGED <<files, doSQLite, doNeo4j, doMongo, pc, db, committed, oi,
                   ids, cnt, mongo, results, crashed, workers>>

\* Line 38.
QueryNeo4j ==
    /\ pc = "populateNeo4j"
    /\ fi > Len(files)
    /\ results' = [results EXCEPT !.neo4j = queryNeo4j(graph)]
    /\ pc' = AfterNeo4j
    /\ fi' = 1
    /\ UNCHANGED <<files, doSQLite, doNeo4j, doMongo, db, committed, oi, ids,
                   cnt, graph, loaded, mongo, crashed, workers>>

\* Lines 456-461, one document; jsonData['url'] raises KeyError without url.
UpdateOne ==
    /\ pc = "populateMongo"
    /\ fi <= Len(files)
    /\ IF files[fi].hasUrl
       THEN /\ mongo' = update_one(mongo, files[fi])
            /\ fi' = fi + 1
            /\ UNCHANGED <<pc, crashed>>
       ELSE /\ Uncaught("populateMongo")
            /\ UNCHANGED <<mongo, fi>>
    /\ UNCHANGED <<files, doSQLite, doNeo4j, doMongo, db, committed, oi, ids, cnt,
                   graph, loaded, results, workers>>

\* Line 42.
QueryMongo ==
    /\ pc = "populateMongo"
    /\ fi > Len(files)
    /\ results' = [results EXCEPT !.mongo = queryMongo(mongo)]
    /\ pc' = "exit"
    /\ UNCHANGED <<files, doSQLite, doNeo4j, doMongo, db, committed, fi, oi,
                   ids, cnt, graph, loaded, mongo, crashed, workers>>

Next ==
    \/ Connect
    \/ SkipSqlite
    \/ InsertImageCall
    \/ InsertImageKeyError
    \/ Interrupt
    \/ InsertImageReturn
    \/ QuerySqlite
    \/ Commit
    \/ RunInsertQuery
    \/ QueryNeo4j
    \/ UpdateOne
    \/ QueryMongo

Spec == Init /\ [][Next]_vars

(***************************************************************************)
(* Concurrent ingestion: NumWorkers workers, each running insertImage on   *)
(* one document over the same tables, interleaved at the statements of     *)
(* getOrCreateRow.  A worker is [doc, oi, ids, at]; at is the statement    *)
(* its current getOrCreateRow call is about to execute.                    *)
(***************************************************************************)
\* The documents the workers ingest: url, and one label (mid 1) with a score.
LabelOnly(url, score) ==
    Doc(TRUE, url, Arr(<<LabelAnn(1, 1, score)>>),
        WebDetection(Absent, Absent, Absent, Arr(<<>>)), Absent)

ConcurrentDocuments == {LabelOnly(u, s) : u \in 1..2, s \in 1..2}

\* The worker after its current call returned id.
Returned(worker, id) ==
    LET call == insertImage(worker.doc)[worker.oi]
    IN  [worker EXCEPT
            !.oi = @ + 1,
            !.at = "select",
            !.ids = IF call.into = "none" THEN @
                    ELSE [@ EXCEPT ![call.into] = id]]

CurrentCall(w) == insertImage(workers[w].doc)[workers[w].oi]

Running(w) == workers[w].oi <= Len(insertImage(workers[w].doc))

InitConc ==
    /\ files = <<>>
    /\ doSQLite = TRUE
    /\ doNeo4j = FALSE
    /\ doMongo = FALSE
    /\ pc = "populateSqlite"
    /\ db = createSchema
    /\ committed = createSchema
    /\ fi = 1
    /\ oi = 1
    /\ ids = NoIds
    /\ cnt = 0
    /\ graph = EmptyGraph
    /\ loaded = 0
    /\ mongo = NoDocuments
    /\ results = NoResults
    /\ crashed = "no"
    /\ workers \in [1..NumWorkers ->
                       {[doc |-> d, oi |-> 1, ids |-> NoIds, at |-> "select"] :
                           d \in ConcurrentDocuments}]

\* Lines 305-308.
ExecuteSelect(w) ==
    /\ Running(w)
    /\ workers[w].at = "select"
    /\ LET res == Select(db, CurrentCall(w).table,
                         DataDict(CurrentCall(w), workers[w].ids))
       IN  workers' = [workers EXCEPT
                          ![w] = IF res # None THEN Returned(@, res)
                                 ELSE [@ EXCEPT !.at = "insert"]]
    /\ UNCHANGED <<files, doSQLite, doNeo4j, doMongo, pc, db, committed, fi,
                   oi, ids, cnt, graph, loaded, mongo, results, crashed>>

\* Line 314.
ExecuteInsert(w) ==
    /\ Running(w)
    /\ workers[w].at = "insert"
    /\ db' = Insert(db, CurrentCall(w).table,
                    DataDict(CurrentCall(w), workers[w].ids))
    /\ workers' = [workers EXCEPT ![w].at = "reselect"]
    /\ UNCHANGED <<files, doSQLite, doNeo4j, doMongo, pc, committed, fi, oi,
                   ids, cnt, graph, loaded, mongo, results, crashed>>

\* Lines 316-320.
ExecuteReselect(w) ==
    /\ Running(w)
    /\ workers[w].at = "reselect"
    /\ LET res == Select(db, CurrentCall(w).table,
                         DataDict(CurrentCall(w), workers[w].ids))
       IN  workers' = [workers EXCEPT
                          ![w] = IF res # None THEN Returned(@, res)
                                 ELSE [@ EXCEPT !.at = "raised"]]
    /\ UNCHANGED <<files, doSQLite, doNeo4j, doMongo, pc, db, committed, fi,
                   oi, ids, cnt, graph, loaded, mongo, results, crashed>>

NextConc ==
    \E w \in 1..NumWorkers :
        \/ ExecuteSelect(w)
        \/ ExecuteInsert(w)
        \/ ExecuteReselect(w)

SpecConc == InitConc /\ [][NextConc]_vars

(***************************************************************************)
(* A directory of MaxImages documents, one more than the queries' LIMIT,   *)
(* each with one or two landmarks, loaded into SQLite and MongoDB document *)
(* by document.                                                            *)
(***************************************************************************)
MaxImages == 11

\* A document of url with the landmarks of mids 1..n and nothing else.
LandmarkDocument(url, n) ==
    Doc(TRUE, url, Arr(<<>>),
        WebDetection(Absent, Absent, Absent, Arr(<<>>)),
        Arr([mid \in 1..n |-> LandmarkAnn(mid, TRUE, mid, 1, <<>>)]))

\* glob.glob returns the files in the order of the directory: here by url,
\* ascending or descending.
Directories ==
    LET choices == [1..MaxImages -> 1..2]
        up(c) == [k \in 1..MaxImages |-> LandmarkDocument(k, c[k])]
        down(c) == [k \in 1..MaxImages |->
                       LandmarkDocument(MaxImages + 1 - k,
                                        c[MaxImages + 1 - k])]
    IN  {up(c) : c \in choices} \cup {down(c) : c \in choices}

InitTop ==
    /\ files \in Directories
    /\ doSQLite = TRUE
    /\ doNeo4j = FALSE
    /\ doMongo = TRUE
    /\ pc = "main"
    /\ db = createSchema
    /\ committed = createSchema
    /\ fi = 1
    /\ oi = 1
    /\ ids = NoIds
    /\ cnt = 0
    /\ graph = EmptyGraph
    /\ loaded = 0
    /\ mongo = NoDocuments
    /\ results = NoResults
    /\ crashed = "no"
    /\ workers = <<>>

\* Lines 212-217, one file: insertImage from its first call to its return.
LoadDocument ==
    /\ pc = "populateSqlite"
    /\ fi <= Len(files)
    /\ Ingestible(files[fi])
    /\ db' = IngestAll(db, <<files[fi]>>)
    /\ committed' = StoredAfterExecute(committed, db')
    /\ cnt' = cnt + 1
    /\ fi' = fi + 1
    /\ UNCHANGED <<files, doSQLite, doNeo4j, doMongo, pc, oi, ids, graph,
                   loaded, mongo, results, crashed, workers>>

NextTop ==
    \/ Connect
    \/ LoadDocument
    \/ QuerySqlite
    \/ Commit
    \/ UpdateOne
    \/ QueryMongo

SpecTop == InitTop /\ [][NextTop]_vars

(***************************************************************************)
(* Properties.                                                             *)
(***************************************************************************)
RowCounts(tables) == [t \in Tables |-> Len(tables[t])]

\* populateSqlite is at work on a document that an earlier file of the run
\* held as well, so that insertImage already ran to its end on it.
Reingesting ==
    /\ pc = "populateSqlite"
    /\ fi <= Len(files)
    /\ \E j \in 1..(fi - 1) : files[j] = files[fi]

\* C1: ingesting again a document that was already ingested (a second run
\* over the same documents, in any order, on the store the first run left)
\* creates no row: every step of the re-ingestion leaves the row count of
\* every entity table and every edge table as it was.
C1_ReingestCreatesNoRow ==
    [][Reingesting => RowCounts(db') = RowCounts(db)]_vars

\* A document was ingested a second time, to its end, on a store that holds
\* a URL both as a match target and as a source image.
C1_Witness ==
    /\ Reingesting
    /\ oi > Len(insertImage(files[fi]))
    /\ \E i, j \in RowIds(db, "image") :
           i # j /\ db.image[i].url = db.image[j].url

\* The natural key of a row of an entity table.
NaturalKey(table, row) ==
    CASE table = "image" -> <<row.url>>
      [] table = "label" -> <<row.mid>>
      [] table = "web_entity" -> <<row.entity_id>>
      [] table = "page" -> <<row.url>>
      [] table = "landmark" -> <<row.mid>>
      [] table = "location" -> <<row.latitude, row.longitude>>

EntityTables ==
    {"image", "label", "web_entity", "page", "landmark", "location"}

\* C2: in every reachable state of the ingestion no two rows of an entity
\* table share a natural key (Image.url, Label.mid, WebEntity.entityId,
\* Page.url, Landmark.mid, Location (latitude, longitude)).
C2_NaturalKeyUnique ==
    \A t \in EntityTables : \A i, j \in RowIds(db, t) :
        NaturalKey(t, db[t][i]) = NaturalKey(t, db[t][j]) => i = j

\* C3: when the concurrent workers have all finished, no table holds two
\* rows for the same key: the rows of every table are pairwise different.
C3_OneRowPerKey ==
    (\A w \in DOMAIN workers : ~Running(w)) =>
        \A t \in Tables : \A i, j \in RowIds(db, t) :
            db[t][i] = db[t][j] => i = j

\* C4: once an Image with URL u is stored with isDocument true, the next
\* state (hence every later one) holds no Image with URL u that is not a
\* document, in the relational store and in the graph store.
C4_IsDocumentMonotonic ==
    [][/\ \A i \in RowIds(db, "image") :
              db.image[i].is_document = 1 =>
                  \A j \in RowIds(db', "image") :
                      db'.image[j].url = db.image[i].url =>
                          db'.image[j].is_document = 1
       /\ \A u \in DOMAIN graph.Image :
              graph.Image[u] = "true" =>
                  (u \in DOMAIN graph'.Image => graph'.Image[u] = "true")]_vars

\* The scores under which the files ingested so far tag the image of url
\* with an entity equal to the row of the entity table.
ScoresIngested(table, url, row) ==
    UNION {
        LET doc == files[k]
        IN  CASE table = "image_tagged_label" ->
                 {ann.score : ann \in
                     {a \in {doc.labelAnnotations.items[n] :
                                n \in 1..Len(doc.labelAnnotations.items)} :
                         a.mid = row.mid /\ a.description = row.description}}
              [] table = "image_tagged_web_entity" ->
                 {ent.score : ent \in
                     {e \in {doc.webDetection.webEntities.items[n] :
                                n \in 1..Len(doc.webDetection.webEntities.items)} :
                         /\ e.entityId = row.entity_id
                         /\ row.description = IF e.hasDescription
                                              THEN e.description
                                              ELSE EmptyString}}
              [] table = "image_contains_landmark" ->
                 {lma.score : lma \in
                     {l \in {doc.landmarkAnnotations.items[n] :
                                n \in 1..Len(doc.landmarkAnnotations.items)} :
                         /\ l.mid = row.mid
                         /\ row.description = IF l.hasDescription
                                              THEN l.description
                                              ELSE EmptyString}}
        : k \in {n \in 1..cnt : files[n].url = url}}

\* The three scored edge tables: the entity table and the column of its id.
ScoredEdges ==
    {<<"image_tagged_label", "label", "label_id">>,
     <<"image_tagged_web_entity", "web_entity", "web_entity_id">>,
     <<"image_contains_landmark", "landmark", "landmark_id">>}

EdgesBetween(tables, edge, i, e) ==
    {r \in RowIds(tables, edge[1]) :
        /\ tables[edge[1]][r].image_id = i
        /\ tables[edge[1]][r][edge[3]] = e}

\* populateSqlite is between two documents, or done with the last.
BetweenDocuments ==
    \/ pc = "populateSqlite" /\ oi = 1
    \/ pc = "commit"

\* C5: a scored edge is got or created by its endpoints and its score: after
\* any number of ingestions the edges between a source image and an entity
\* are one per score the ingested documents gave that edge; so one edge when
\* the document was re-ingested unchanged, two when only the score changed.
C5_OneEdgePerScore ==
    BetweenDocuments =>
        \A edge \in ScoredEdges :
            \A i \in RowIds(db, "image"), e \in RowIds(db, edge[2]) :
                Cardinality(EdgesBetween(db, edge, i, e))
                    = IF db.image[i].is_document = 1
                      THEN Cardinality(ScoresIngested(edge[1], db.image[i].url,
                                                      db[edge[2]][e]))
                      ELSE 0

\* A document was ingested twice unchanged and once with another score: two
\* edges join its image and the label.
C5_Witness ==
    /\ pc = "commit"
    /\ \E j, k \in 1..cnt : j # k /\ files[j] = files[k]
    /\ \E i \in RowIds(db, "image"), e \in RowIds(db, "label") :
           Cardinality(EdgesBetween(db, <<"image_tagged_label", "label",
                                          "label_id">>, i, e)) = 2

\* C6: when the run is over, every document that can be ingested has been:
\* its image is in the relational store and in the graph store, whatever
\* happened to the other documents.
C6_FailureIsolated ==
    pc = "exit" /\ crashed # "interrupted" =>
        /\ doSQLite =>
               \A k \in 1..Len(files) :
                   Ingestible(files[k]) =>
                       \E i \in RowIds(committed, "image") :
                           /\ committed.image[i].url = files[k].url
                           /\ committed.image[i].is_document = 1
        /\ doNeo4j =>
               \A k \in 1..Len(files) :
                   ~insertQueryFails(files[k]) =>
                       /\ files[k].url \in DOMAIN graph.Image
                       /\ graph.Image[files[k].url] = "true"

\* C7: the database file never holds a half-written document: at every
\* moment, also after a failure or a cancellation part-way through
\* insertImage, its tables are those of some of the files ingested each to
\* its end.
C7_RecordAtomic ==
    \E k \in 0..Len(files) :
        /\ \A j \in 1..k : Ingestible(files[j])
        /\ committed = IngestAll(createSchema, SubSeq(files, 1, k))

\* insertImage failed on a document after some of its calls had run.
C7_Witness ==
    /\ crashed = "populateSqlite"
    /\ fi > 1
    /\ oi > 2

\* C8: a document with a url never fails to ingest, whichever of its
\* optional arrays are absent.
C8_AbsentArraysNoError ==
    crashed = "populateSqlite" => ~files[fi].hasUrl

\* All three backends ran to the end on the same files.
AllRan ==
    /\ pc = "exit"
    /\ crashed = "no"
    /\ doSQLite /\ doNeo4j /\ doMongo

\* C9: on a fixture of at least 3 documents with different urls, queries 1
\* to 3 print the same rows in the relational, graph and document stores.
C9_CrossModelEquivalent ==
    (/\ AllRan
     /\ Len(files) >= 3
     /\ \A j, k \in 1..Len(files) : files[j].url = files[k].url => j = k) =>
        \A q \in 1..3 :
            /\ results.sqlite[q] = results.neo4j[q]
            /\ results.neo4j[q] = results.mongo[q]

\* The edge rows incident to an image row with the given url, each counted
\* once.
EdgesAt(tables, u) ==
    LET at(i) == i \in RowIds(tables, "image") /\ tables.image[i].url = u
        n(table) == Cardinality({e \in RowIds(tables, table) :
                                    at(tables[table][e].image_id)})
    IN  n("image_tagged_label") + n("image_tagged_web_entity")
        + n("image_in_page") + n("image_contains_landmark")
        + Cardinality({e \in RowIds(tables, "image_matches_image") :
              \/ at(tables.image_matches_image[e].image_id1)
              \/ at(tables.image_matches_image[e].image_id2)})

Range(seq) == {seq[n] : n \in 1..Len(seq)}

\* C10: query 4 reports, for each url ingested as a document, the number of
\* edges at that image, and the three backends report the same.
C10_TopConnected ==
    AllRan =>
        /\ Range(results.sqlite[4])
               = {<<u, EdgesAt(db, u)>> :
                     u \in {v \in {files[k].url : k \in 1..Len(files)} :
                               EdgesAt(db, v) > 0}}
        /\ results.sqlite[4] = results.neo4j[4]
        /\ results.neo4j[4] = results.mongo[4]

\* The MATCH edges the ingested documents state: <<source url, target url,
\* type>>, each once.
MatchesIngested ==
    UNION {LET web == files[k].webDetection
           IN  {<<files[k].url, t, full>> :
                   t \in Range(ItemsOf(web.fullMatchingImages))}
               \cup {<<files[k].url, t, partial>> :
                        t \in Range(ItemsOf(web.partialMatchingImages))} :
           k \in 1..Len(files)}

\* The MATCH edges at the image of url u, as source or as target; a
\* self-match is one edge.
MatchesAt(u) == Cardinality({m \in MatchesIngested : m[1] = u \/ m[2] = u})

\* rows is an answer to query 3: each row a url with its matches, no url
\* twice, count descending then url ascending, and every image with a match
\* listed unless the limit cut it off.
TopMatched(rows) ==
    /\ \A n \in 1..Len(rows) : rows[n][2] = MatchesAt(rows[n][1])
    /\ \A n, m \in 1..Len(rows) : rows[n][1] = rows[m][1] => n = m
    /\ \A n \in 1..(Len(rows) - 1) :
           \/ rows[n][2] > rows[n + 1][2]
           \/ rows[n][2] = rows[n + 1][2] /\ rows[n][1] < rows[n + 1][1]
    /\ Len(rows) <= TopN
    /\ Len(rows) < TopN =>
           \A m \in MatchesIngested :
               \A u \in {m[1], m[2]} : \E n \in 1..Len(rows) : rows[n][1] = u

\* C11: query 3 of each backend (query_3, query_7, pipeline_3) lists each
\* image url once with the number of MATCH edges at it in either direction,
\* a self-match counted once, sorted by count descending then url ascending.
C11_TopMatchedImages ==
    AllRan =>
        /\ TopMatched(results.sqlite[3])
        /\ TopMatched(results.neo4j[3])
        /\ TopMatched(results.mongo[3])

\* The landmark annotations of the ingested documents.
LandmarksIngested ==
    UNION {Range(ItemsOf(files[k].landmarkAnnotations)) : k \in 1..Len(files)}

\* The description a landmark is stored under (lines 276-279).
DescriptionOf(lma) ==
    IF lma.hasDescription THEN lma.description ELSE EmptyString

\* The mids the documents give to the landmarks of description d, and the
\* locations they give to the landmark (mid, d).
MidsOf(d) == {lma.mid : lma \in {l \in LandmarksIngested : DescriptionOf(l) = d}}

LocationsOf(mid, d) ==
    UNION {Range(lma.locations) :
              lma \in {l \in LandmarksIngested :
                          l.mid = mid /\ DescriptionOf(l) = d}}

\* Description d is that of exactly two landmarks, of different mids, with
\* one location each.
TwoLandmarksOneLocationEach(d) ==
    /\ Cardinality(MidsOf(d)) = 2
    /\ \A mid \in MidsOf(d) : Cardinality(LocationsOf(mid, d)) = 1

LabelsOf(rows) == {rows[n][1] : n \in 1..Len(rows)}

\* C12: two landmarks of one description and different mids, with one
\* location each, are stored as two landmarks; query_9 (grouped by landmark)
\* does not list the description; query_2, query_6 and pipeline_2 (grouped
\* by description) list it, also when the two locations are the same place.
C12_DistinctKeyLandmarks ==
    AllRan =>
        \A d \in {DescriptionOf(lma) : lma \in LandmarksIngested} :
            TwoLandmarksOneLocationEach(d) =>
                /\ Cardinality({i \in RowIds(db, "landmark") :
                                   db.landmark[i].description = d}) = 2
                /\ Cardinality({la \in graph.Landmark : la[2] = d}) = 2
                /\ d \notin LabelsOf(results.neo4j[5])
                /\ d \in LabelsOf(results.sqlite[2])
                /\ d \in LabelsOf(results.neo4j[2])
                /\ d \in LabelsOf(results.mongo[2])

\* The CONTAINS edges at the images of url u in the tables.
ContainsAt(tables, u) ==
    Cardinality({e \in RowIds(tables, "image_contains_landmark") :
        tables.image[tables.image_contains_landmark[e].image_id].url = u})

\* rows is an answer to query 1 over images with count[u] landmarks: each
\* row a url with its count, at most TopN rows, count descending then url
\* ascending, and nothing left out that belongs before a listed row, or
\* that has a landmark when the limit was not reached.
TopLandmarks(rows, count) ==
    LET listed == LabelsOf(rows)
    IN  /\ listed \subseteq DOMAIN count
        /\ \A n \in 1..Len(rows) : rows[n][2] = count[rows[n][1]]
        /\ Len(rows) <= TopN
        /\ \A n \in 1..(Len(rows) - 1) :
               \/ rows[n][2] > rows[n + 1][2]
               \/ rows[n][2] = rows[n + 1][2] /\ rows[n][1] < rows[n + 1][1]
        /\ \A u \in DOMAIN count \ listed :
               /\ \A n \in 1..Len(rows) :
                      /\ count[u] <= rows[n][2]
                      /\ count[u] = rows[n][2] => u > rows[n][1]
               /\ Len(rows) < TopN => count[u] = 0

\* C13: query_1 and pipeline_1 print urls with their numbers of landmarks,
\* at most 10 rows, sorted by count descending and url ascending, and no
\* image left out ranks before one printed.
C13_TopLandmarksPerImage ==
    /\ results.sqlite # <<>> =>
           TopLandmarks(results.sqlite[1],
                        [u \in {db.image[i].url : i \in RowIds(db, "image")}
                            |-> ContainsAt(db, u)])
    /\ results.mongo # <<>> =>
           TopLandmarks(results.mongo[1],
                        [u \in DOMAIN mongo |->
                            SizeOf(mongo[u].landmarkAnnotations)])

\* Both queries ran on more than TopN images with landmarks: rows were cut
\* off, rows tie on the count and rows differ in the count.
C13_Witness ==
    /\ pc = "exit"
    /\ Cardinality(DOMAIN mongo) > TopN
    /\ \A q \in {results.sqlite[1], results.mongo[1]} :
           /\ Len(q) = TopN
           /\ q[1][2] = 2 /\ q[2][2] = 2 /\ q[TopN][2] = 1

\* The id columns of the edge tables and the entity table each refers to.
References ==
    [image_tagged_label |-> [image_id |-> "image", label_id |-> "label"],
     image_matches_image |-> [image_id1 |-> "image", image_id2 |-> "image"],
     image_in_page |-> [image_id |-> "image", page_id |-> "page"],
     image_tagged_web_entity |->
         [image_id |-> "image", web_entity_id |-> "web_entity"],
     image_contains_landmark |->
         [image_id |-> "image", landmark_id |-> "landmark"],
     landmark_located_at_location |->
         [landmark_id |-> "landmark", location_id |-> "location"]]

\* Every id in an edge row is the id of a row of the entity table.
ReferencesResolve(tables) ==
    \A t \in DOMAIN References : \A e \in RowIds(tables, t) :
        \A c \in DOMAIN References[t] :
            tables[t][e][c] \in RowIds(tables, References[t][c])

\* C14: in every state of the ingestion, between any two getOrCreateRow
\* calls, every edge row refers to existing entity rows, in the tables the
\* connection sees and in the stored ones.
C14_EdgesReferToRows == ReferencesResolve(db) /\ ReferencesResolve(committed)

\* insertImage is between two calls of a document, with label, match and
\* located-at edges in the tables.
C14_Witness ==
    /\ pc = "populateSqlite"
    /\ fi <= Len(files)
    /\ oi > 1 /\ oi <= Len(insertImage(files[fi]))
    /\ db.image_tagged_label # <<>>
    /\ db.image_matches_image # <<>>
    /\ db.landmark_located_at_location # <<>>

\* The orders in which glob.glob may return the same files.
Orders(docs) ==
    {[k \in 1..Len(docs) |-> docs[f[k]]] :
        f \in {g \in [1..Len(docs) -> 1..Len(docs)] :
                  \A i, j \in 1..Len(docs) : g[i] = g[j] => i = j}}

\* The rows of an entity table without their ids.
EntitiesOf(tables, t) == Range(tables[t])

\* C15: the files being well-formed records of different urls, ingesting
\* them in any other order gives the same entities, the same number of rows
\* in every table and the same answers to queries 1 to 4.
C15_OrderIndependent ==
    (/\ pc = "commit"
     /\ \A k \in 1..Len(files) : Ingestible(files[k])
     /\ \A j, k \in 1..Len(files) : files[j].url = files[k].url => j = k) =>
        \A other \in Orders(files) :
            LET tables == IngestAll(createSchema, other)
            IN  /\ \A t \in EntityTables :
                       EntitiesOf(tables, t) = EntitiesOf(db, t)
                /\ RowCounts(tables) = RowCounts(db)
                /\ querySqlite(tables) = results.sqlite

\* Calls of getOrCreateRow to try on the tables of a state: image by url,
\* image by url and is_document, label (also with a null description) and
\* image_tagged_label.
Probes ==
    {<<"image", [url |-> u]>> : u \in 1..3}
    \cup {<<"image", [url |-> u, is_document |-> b]>> :
             u \in 1..3, b \in 0..1}
    \cup {<<"label", [mid |-> m, description |-> d]>> :
             m \in 1..2, d \in {1, 2, NULL}}
    \cup {<<"image_tagged_label",
            [image_id |-> i, label_id |-> l, score |-> x]>> :
             i \in 1..2, l \in 1..2, x \in 1..2}

\* The row equals the dict on every supplied column, as SQL compares.
EqualsOnSupplied(row, dataDict) ==
    \A k \in DOMAIN dataDict : dataDict[k] # NULL /\ row[k] = dataDict[k]

\* The contract on one call from the given tables.
Contract(tables, table, dataDict) ==
    LET r == getOrCreateRow(tables, table, dataDict)
        found == {i \in RowIds(tables, table) :
                     EqualsOnSupplied(tables[table][i], dataDict)}
        n == Len(tables[table])
    IN  /\ found # {} =>
               /\ r.tables = tables
               /\ r.id \in found
               /\ ~r.raised
        /\ found = {} =>
               /\ Len(r.tables[table]) = n + 1
               /\ SubSeq(r.tables[table], 1, n) = tables[table]
               /\ \A k \in DOMAIN dataDict :
                      r.tables[table][n + 1][k] = dataDict[k]
               /\ \A t \in Tables \ {table} : r.tables[t] = tables[t]
               /\ (\A k \in DOMAIN dataDict : dataDict[k] # NULL) =>
                      ~r.raised /\ r.id = n + 1
        /\ r.raised =>
               /\ found = {}
               /\ \E k \in DOMAIN dataDict : dataDict[k] = NULL

\* C16: on the tables of every state of the ingestion, a getOrCreateRow call
\* returns the id of a row equal to the dict on the supplied columns and
\* changes nothing when there is one; otherwise it appends one row with
\* those values to that table alone and returns its id; it raises only when
\* the inserted row is not found again, which takes a null value.
C16_GetOrCreateContract ==
    \A probe \in Probes : Contract(db, probe[1], probe[2])

\* The tables hold two image rows of one url: a call by that url returns the
\* first and inserts nothing, a call for a label not yet stored inserts it,
\* and a call with a null description raises.
C16_Witness ==
    /\ \E i, j \in RowIds(db, "image") :
           /\ i < j
           /\ db.image[i].url = db.image[j].url
           /\ getOrCreateRow(db, "image", [url |-> db.image[i].url]).id = i
    /\ \E m \in 1..2 :
           getOrCreateRow(db, "label", [mid |-> m, description |-> 2]).tables
               # db
    /\ getOrCreateRow(db, "label", [mid |-> 1, description |-> NULL]).raised

====
